---- MODULE Spec2Model ----
(***************************************************************************)
(* Model of the message-routing and mention-tracking core of the Telegram  *)
(* bot: the mention store kept in Redis (src/action/utils.ts), the message *)
(* handler of TelegramClient that feeds it, the periodic sweep             *)
(* checkMentionTimeouts, and the action router                             *)
(* MessageManager.handleMessage (src/telegram/messageManager.ts).          *)
(*                                                                         *)
(* The specifications share the variables:                                 *)
(*   SpecMention      - group/private messages and the sweep;              *)
(*   SpecMentionTimed - the same with Date.now() advancing;                *)
(*   SpecRouter       - one routing decision of handleMessage per step.    *)
(*   SpecDialog       - the send-to-group and poll dialogs of one room;    *)
(*   SpecDialogState  - the dialog-state accessors on a damaged store;     *)
(*   SpecExtract      - extractJsonFromResponse;                           *)
(*   SpecPoll         - poll creation, vote callbacks and close requests;  *)
(*   SpecConfirmRace  - two deliveries of one confirming update;           *)
(*   SpecSweepRace    - overlapping sweeps beside markMentionsAsRead;      *)
(*   SpecRate         - private messages at the rate-limit gate.           *)
(* The router never reads the mention keys and the mention side never     *)
(* reads the routing record, so each leaves the other's variables alone.   *)
(***************************************************************************)
EXTENDS Integers, Sequences, FiniteSets, TLC

(***************************************************************************)
(* Bounds of the model.                                                    *)
(***************************************************************************)
MaxMessages == 2      \* group messages handled in one behaviour
MaxEntities == 2      \* mention entities carried by one message
MaxTime == 2          \* readings of Date.now() that differ
MaxNominated == 2     \* length of the classifier's potentialActions list
MaxValid == 2         \* non-default actions whose validate accepts a message
MaxPollOps == 4       \* poll callbacks and close requests in one behaviour

(***************************************************************************)
(* Identifiers.  Telegram user ids are positive, group chat ids negative;  *)
(* a private chat's id is the user's id.  Message ids count up per chat.   *)
(***************************************************************************)
Users == {1, 2}
Chats == {-1, -2}
NullId == 0           \* redis.get of an unknown username: null
Undefined == 0        \* a destructured array element that is missing
MentionIds == Users \cup {NullId}

VARIABLES
    records,      \* hash  mention:<chat>:<message>
    userIdx,      \* zset  user:<id>:pending_mentions, members <chat>:<message>
    chatIdx,      \* zset  chat:<id>:mentions:pending, members <user>:<message>
    tracked,      \* key   user:<id>:groups exists
    privateChat,  \* key   user:<id>:private_chat_id
    nextId,       \* next message_id of each chat
    handled,      \* group messages handled so far
    now,          \* Date.now()
    sweepKeys,    \* user keys a running checkMentionTimeouts has yet to process
    last,         \* what the last mention-side operation did
    route,        \* the last message given to handleMessage, and what it did
    cache,        \* runtime.cacheManager: the stored text of each key
    dlg,          \* what the last dialog-state operation or dialog message did
    ext,          \* the last text given to extractJsonFromResponse, and the results
    pollStore,    \* key   poll:<group>:<id>, the stored poll
    userVote,     \* key   poll_user_vote:<id>:<user>
    cb,           \* each poll callback or close being handled: its position
    pollOps,      \* poll callbacks and close requests started so far
    hs,           \* each delivery in sendToGroupAction.handler: its position
    groupLog,     \* sendMessage calls made for the room's current draft
    sw,           \* each overlapping run of checkMentionTimeouts: its position
    mk,           \* the markMentionsAsRead under way: its position
    notes,        \* notifications sent, per user and mention
    swept,        \* mention records a sweep has deleted
    rlCount,      \* key   rate_limit:<user>, 0 when the key does not exist
    rlCooldown,   \* key   rate_limit_cooldown:<user> exists
    gate          \* each private message at the rate-limit gate: its position

mentionVars == <<records, userIdx, chatIdx, tracked, privateChat, nextId,
                 handled, now, sweepKeys, last>>
routerVars == <<route>>
dialogVars == <<cache, dlg>>
extractVars == <<ext>>
pollVars == <<pollStore, userVote, cb, pollOps>>
\* The variables of the features modelled after the dialogs.
raceVars == <<hs, groupLog>>
sweepRaceVars == <<sw, mk, notes, swept>>
rateVars == <<rlCount, rlCooldown, gate>>
sideVars == <<pollVars, raceVars, sweepRaceVars, rateVars>>
\* What each of these features leaves alone among them.
besidePoll == <<raceVars, sweepRaceVars, rateVars>>
besideRace == <<pollVars, sweepRaceVars, rateVars>>
besideSweepRace == <<pollVars, raceVars, rateVars>>
besideRate == <<pollVars, raceVars, sweepRaceVars>>
vars == <<records, userIdx, chatIdx, tracked, privateChat, nextId, handled,
          now, sweepKeys, last, route, cache, dlg, ext, sideVars>>

(***************************************************************************)
(* Redis primitives.  A sorted set is a set of [member, score] entries     *)
(* with one entry per member; a hash that was never written reads as {}.   *)
(***************************************************************************)
NoRecord == [status |-> "undefined", mentioner |-> Undefined,
             mentionedId |-> Undefined, chat |-> Undefined,
             message |-> Undefined, timestamp |-> Undefined]

ZAdd(z, score, member) ==
    {e \in z : e.member # member} \cup {[member |-> member, score |-> score]}

ZRem(z, member) == {e \in z : e.member # member}

ZMembers(z) == {e.member : e \in z}

\* zrange key 0 -1 WITHSCORES: the reply is one flat array holding every
\* member and every score; the callers iterate over all its elements.
ZRangeWithScores(z) ==
    {[kind |-> "member", parts |-> e.member] : e \in z}
        \cup {[kind |-> "score", parts |-> <<e.score>>] : e \in z}

\* const [a, b] = element.split(':')
SplitRef(elem) ==
    IF Len(elem.parts) >= 2
        THEN <<elem.parts[1], elem.parts[2]>>
        ELSE <<elem.parts[1], Undefined>>

HGetAll(recs, key) == IF key \in DOMAIN recs THEN recs[key] ELSE NoRecord

\* hset key field value: creates the hash when it does not exist
HSetStatus(recs, key, value) ==
    IF key \in DOMAIN recs
        THEN [recs EXCEPT ![key].status = value]
        ELSE [k \in DOMAIN recs \cup {key} |->
                 IF k = key THEN [NoRecord EXCEPT !.status = value] ELSE recs[k]]

HSetAll(recs, key, data) ==
    [k \in DOMAIN recs \cup {key} |-> IF k = key THEN data ELSE recs[k]]

Store(r, u, c) == [records |-> r, userIdx |-> u, chatIdx |-> c]

(***************************************************************************)
(* Mention tracking (src/action/utils.ts).                                 *)
(***************************************************************************)
\* trackMention: one MULTI writing the record and both index entries.
trackMention(st, mentionerId, mentionedId, chatId, messageId, timestamp) ==
    LET mentionData == [status |-> "unresponded", mentioner |-> mentionerId,
                        mentionedId |-> mentionedId, chat |-> chatId,
                        message |-> messageId, timestamp |-> timestamp]
    IN Store(HSetAll(st.records, <<chatId, messageId>>, mentionData),
             [st.userIdx EXCEPT ![mentionedId] =
                 ZAdd(@, timestamp, <<chatId, messageId>>)],
             [st.chatIdx EXCEPT ![chatId] =
                 ZAdd(@, timestamp, <<mentionedId, messageId>>)])

\* handleMention: every mention entity of the message, in order; entities[i]
\* is the user id the entity resolves to (NullId for an unknown @username).
RECURSIVE handleMention(_, _, _, _, _, _, _)
handleMention(st, trk, fromId, chatId, messageId, entities, timestamp) ==
    IF entities = <<>> THEN st
    ELSE LET mentionedId == Head(entities)
             isMentionerValid == trk[fromId]
             isMentionedValid == trk[mentionedId]
             st1 == IF isMentionerValid \/ isMentionedValid
                        THEN trackMention(st, fromId, mentionedId, chatId,
                                          messageId, timestamp)
                        ELSE st
         IN handleMention(st1, trk, fromId, chatId, messageId,
                          Tail(entities), timestamp)

\* Mutant of markOneAsRead: the status write is left out.
markOneAsReadNoStatus(st, userId, chatId, elem) ==
    LET mentionChatId == SplitRef(elem)[1]
        messageId == SplitRef(elem)[2]
    IN IF mentionChatId = chatId
           THEN Store(st.records,
                      [st.userIdx EXCEPT ![userId] = ZRem(@, elem.parts)],
                      [st.chatIdx EXCEPT ![chatId] =
                          ZRem(@, <<userId, messageId>>)])
           ELSE st

\* The body of markMentionsAsRead's loop for one element of the reply.
markOneAsRead(st, userId, chatId, elem) ==
    LET mentionChatId == SplitRef(elem)[1]
        messageId == SplitRef(elem)[2]
    IN IF mentionChatId = chatId
           THEN Store(HSetStatus(st.records, <<chatId, messageId>>, "read"),
                      [st.userIdx EXCEPT ![userId] = ZRem(@, elem.parts)],
                      [st.chatIdx EXCEPT ![chatId] =
                          ZRem(@, <<userId, messageId>>)])
           ELSE st

\* markMentionsAsRead: the loop over the reply read at its start.  The loop
\* body touches only the element's own keys, so the order does not matter.
RECURSIVE markLoop(_, _, _, _)
markLoop(st, userId, chatId, elems) ==
    IF elems = {} THEN st
    ELSE LET e == CHOOSE x \in elems : TRUE
         IN markLoop(markOneAsRead(st, userId, chatId, e), userId, chatId,
                     elems \ {e})

markMentionsAsRead(st, userId, chatId) ==
    markLoop(st, userId, chatId, ZRangeWithScores(st.userIdx[userId]))

(***************************************************************************)
(* The sweep (checkMentionTimeouts) and its notifier.                      *)
(***************************************************************************)
\* Mutant of handleUnrespondedMentions: the private path sends one message
\* per mention instead of one message listing them all.
handleUnrespondedMentionsPerMention(privateChatId, mentions, sendFails) ==
    IF privateChatId # NullId
        THEN [calls |-> [i \in 1..Cardinality(mentions) |-> privateChatId],
              threw |-> privateChatId \in sendFails]
        ELSE LET mentionsByChat == {m.chat : m \in mentions}
                 order == CHOOSE s \in [1..Cardinality(mentionsByChat) ->
                                            mentionsByChat] :
                              \A i, j \in DOMAIN s : i # j => s[i] # s[j]
             IN [calls |-> order, threw |-> FALSE]

\* handleUnrespondedMentions: the sendMessage calls it makes, and whether it
\* throws.  sendFails is the set of chats to which sendMessage fails.
handleUnrespondedMentions(privateChatId, mentions, sendFails) ==
    IF privateChatId # NullId
        THEN [calls |-> <<privateChatId>>,
              threw |-> privateChatId \in sendFails]
        ELSE LET mentionsByChat == {m.chat : m \in mentions}
                 order == CHOOSE s \in [1..Cardinality(mentionsByChat) ->
                                            mentionsByChat] :
                              \A i, j \in DOMAIN s : i # j => s[i] # s[j]
             IN [calls |-> order, threw |-> FALSE]

\* Clean up all processed mentions: the pipeline after a notification.
cleanupPipeline(st, userId, mentionsToDelete) ==
    Store([k \in DOMAIN st.records \ {d.hashKey : d \in mentionsToDelete} |->
              st.records[k]],
          [st.userIdx EXCEPT ![userId] =
              {e \in @ : e.member \notin
                            {d.mentionKey : d \in mentionsToDelete}}],
          st.chatIdx)

\* One iteration of checkMentionTimeouts' loop over the user keys.
sweepUser(st, userId, privateChatId, sendFails) ==
    LET mentions == ZRangeWithScores(st.userIdx[userId])
        unresponded == {e \in mentions :
                           HGetAll(st.records, SplitRef(e)).status
                               = "unresponded"}
        mentionsToNotify == {HGetAll(st.records, SplitRef(e)) :
                                e \in unresponded}
        mentionsToDelete == {[mentionKey |-> e.parts,
                              hashKey |-> SplitRef(e)] : e \in unresponded}
        res == handleUnrespondedMentions(privateChatId, mentionsToNotify,
                                         sendFails)
    IN IF mentionsToNotify = {}
           THEN [store |-> st, notified |-> {}, calls |-> <<>>,
                 threw |-> FALSE]
           ELSE [store |-> IF res.threw THEN st
                           ELSE cleanupPipeline(st, userId, mentionsToDelete),
                 notified |-> {SplitRef(e) : e \in unresponded},
                 calls |-> res.calls, threw |-> res.threw]

(***************************************************************************)
(* Actions of the mention side.                                            *)
(***************************************************************************)
NoLast == [op |-> "none", user |-> NullId, chat |-> Undefined,
           message |-> Undefined, notified |-> {}, calls |-> <<>>,
           failed |-> {}, threw |-> FALSE, private |-> FALSE,
           skipped |-> {}]

CurrentStore == Store(records, userIdx, chatIdx)

SetStore(st) ==
    /\ records' = st.records
    /\ userIdx' = st.userIdx
    /\ chatIdx' = st.chatIdx

\* The users a message's mention entities resolve to, in entity order.
EntityLists == UNION {[1..n -> Users] : n \in 0..MaxEntities}

\* my_chat_member: a user adds the bot to a group; user:<id>:groups exists.
BotAdded(u) ==
    /\ ~tracked[u]
    /\ tracked' = [tracked EXCEPT ![u] = TRUE]
    /\ last' = [NoLast EXCEPT !.op = "botAdded"]
    /\ UNCHANGED <<sideVars, records, userIdx, chatIdx, privateChat, nextId, handled,
                   now, sweepKeys, route, cache, dlg, ext>>

\* bot.on("message") for a private chat: remembers the user's private chat.
PrivateMessage(u) ==
    /\ privateChat[u] = NullId
    /\ privateChat' = [privateChat EXCEPT ![u] = u]
    /\ last' = [NoLast EXCEPT !.op = "private"]
    /\ UNCHANGED <<sideVars, records, userIdx, chatIdx, tracked, nextId, handled, now,
                   sweepKeys, route, cache, dlg, ext>>

\* bot.on("message") for a group chat: markMentionsAsRead, then handleMention.
GroupMessage(u, c, entities) ==
    /\ handled < MaxMessages
    /\ LET id == nextId[c]
           st1 == markMentionsAsRead(CurrentStore, u, c)
           st2 == handleMention(st1, tracked, u, c, id, entities, now)
       IN /\ SetStore(st2)
          /\ last' = [NoLast EXCEPT !.op = "message", !.user = u, !.chat = c,
                                    !.message = id]
    /\ nextId' = [nextId EXCEPT ![c] = @ + 1]
    /\ handled' = handled + 1
    /\ UNCHANGED <<sideVars, tracked, privateChat, now, sweepKeys, route, cache, dlg, ext>>

\* The interval timer fires: checkMentionTimeouts reads the user keys.
SweepStart ==
    /\ sweepKeys = {}
    /\ sweepKeys' = {u \in MentionIds : userIdx[u] # {}}
    /\ sweepKeys' # {}
    /\ last' = [NoLast EXCEPT !.op = "sweepStart"]
    /\ UNCHANGED <<sideVars, records, userIdx, chatIdx, tracked, privateChat, nextId,
                   handled, now, route,
                   cache, dlg, ext>>

\* The chats the sweep sends to when it processes user u.
SendTargets(u) ==
    LET r == sweepUser(CurrentStore, u, privateChat[u], {})
    IN {r.calls[i] : i \in DOMAIN r.calls}

\* The sweep processes one of the user keys it read; sendMessage fails for
\* the chats of sendFails.
SweepUser(u, sendFails) ==
    /\ u \in sweepKeys
    /\ LET r == sweepUser(CurrentStore, u, privateChat[u], sendFails)
       IN /\ SetStore(r.store)
          /\ last' = [NoLast EXCEPT !.op = "sweepUser", !.user = u,
                                    !.notified = r.notified,
                                    !.calls = r.calls, !.failed = sendFails,
                                    !.threw = r.threw,
                                    !.private = (privateChat[u] # NullId)]
    /\ sweepKeys' = sweepKeys \ {u}
    /\ UNCHANGED <<sideVars, tracked, privateChat, nextId, handled, now, route,
                   cache, dlg, ext>>

\* A read of the store (zrange, hgetall) rejects while the sweep is at user
\* u: the rejection is outside the loop's try, so checkMentionTimeouts ends
\* there and the timer's callback logs it.
SweepAbort(u) ==
    /\ u \in sweepKeys
    /\ sweepKeys' = {}
    /\ last' = [NoLast EXCEPT !.op = "sweepAbort", !.user = u,
                              !.skipped = sweepKeys \ {u}]
    /\ UNCHANGED <<sideVars, records, userIdx, chatIdx, tracked, privateChat, nextId,
                   handled, now, route, cache, dlg, ext>>

Tick ==
    /\ now < MaxTime
    /\ now' = now + 1
    /\ last' = [NoLast EXCEPT !.op = "tick"]
    /\ UNCHANGED <<sideVars, records, userIdx, chatIdx, tracked, privateChat, nextId,
                   handled, sweepKeys, route, cache, dlg, ext>>


(***************************************************************************)
(* The router: MessageManager.handleMessage and the classifier step.       *)
(***************************************************************************)
\* runtime.actions, in the order createAgent declares them.
Actions == <<"BAN", "SUMMARY", "MENTION", "SUMMARY_GROUPS", "MENTION_AUTO",
             "MEMBER_REPORT", "POLL", "SEND_TO_GROUP", "UNANSWERED_QUESTIONS",
             "DEFAULT">>

ActionNames == {Actions[i] : i \in DOMAIN Actions}

\* Names the classifier may return: the registered ones and one that is not.
NominatedNames == ActionNames \cup {"UNKNOWN"}

\* Mutant of FindAction: every nominated name is taken for an action.
FindActionTrusting(name) == name
\* runtime.actions.find(a => a.name === name)
FindAction(name) == IF name \in ActionNames THEN name ELSE "undefined"

\* JavaScript truthiness of the needsFullValidation field as parsed.
Truthy(v) == v = "true"

\* What generateText and JSON.parse can hand to the router.
Classifications ==
    {[kind |-> "throws", hasActions |-> FALSE, potentialActions |-> <<>>,
      needsFullValidation |-> "missing"],
     [kind |-> "unparsable", hasActions |-> FALSE, potentialActions |-> <<>>,
      needsFullValidation |-> "missing"]}
    \cup {[kind |-> "object", hasActions |-> FALSE,
           potentialActions |-> <<>>, needsFullValidation |-> n] :
             n \in {"true", "false", "missing"}}
    \cup {[kind |-> "object", hasActions |-> TRUE, potentialActions |-> pa,
           needsFullValidation |-> n] :
             pa \in UNION {[1..k -> NominatedNames] : k \in 0..MaxNominated},
             n \in {"true", "false", "missing"}}

\* _analyzeMessageForActions: generateText is awaited outside the try, so a
\* failed call rejects; a JSON.parse failure yields the empty analysis.
analyzeMessageForActions(cls) ==
    IF cls.kind = "throws"
        THEN [threw |-> TRUE, hasActions |-> FALSE, potentialActions |-> <<>>,
              needsFullValidation |-> "missing"]
    ELSE IF cls.kind = "unparsable"
        THEN [threw |-> FALSE, hasActions |-> TRUE, potentialActions |-> <<>>,
              needsFullValidation |-> "true"]
    ELSE [threw |-> FALSE, hasActions |-> cls.hasActions,
          potentialActions |-> cls.potentialActions,
          needsFullValidation |-> cls.needsFullValidation]

NoDispatch == [tried |-> <<>>, invoked |-> <<>>, handled |-> FALSE,
               threw |-> FALSE, handlerThrew |-> FALSE]

\* Mutant of tryNominated: the loop does not record that the message was
\* handled, so the default action runs as well.
RECURSIVE tryNominatedNotHandled(_, _, _, _)
tryNominatedNotHandled(potentialActions, valid, fault, acc) ==
    IF potentialActions = <<>> THEN acc
    ELSE LET actionName == Head(potentialActions)
             action == FindAction(actionName)
         IN IF action = "undefined"
                THEN tryNominatedNotHandled(Tail(potentialActions), valid,
                                            fault, acc)
            ELSE IF fault = "validate"
                THEN [acc EXCEPT !.tried = Append(@, action), !.threw = TRUE]
            ELSE IF action \in valid
                THEN [acc EXCEPT !.tried = Append(@, action),
                                 !.invoked = Append(@, action),
                                 !.threw = (fault = "handler"),
                                 !.handlerThrew = (fault = "handler")]
            ELSE tryNominatedNotHandled(Tail(potentialActions), valid, fault,
                                        [acc EXCEPT !.tried = Append(@, action)])

\* Mutant of tryNominated: only the first nominated action is tried.
tryNominatedFirstOnly(potentialActions, valid, fault, acc) ==
    IF potentialActions = <<>> THEN acc
    ELSE LET action == FindAction(Head(potentialActions))
         IN IF action = "undefined" THEN acc
            ELSE IF fault = "validate"
                THEN [acc EXCEPT !.tried = Append(@, action), !.threw = TRUE]
            ELSE IF action \in valid
                THEN [acc EXCEPT !.tried = Append(@, action),
                                 !.invoked = Append(@, action),
                                 !.handled = (fault # "handler"),
                                 !.threw = (fault = "handler"),
                                 !.handlerThrew = (fault = "handler")]
            ELSE [acc EXCEPT !.tried = Append(@, action)]

\* "Try the identified actions first": the loop over potentialActions.
\* fault names the kind of call that throws when it is first made.
RECURSIVE tryNominated(_, _, _, _)
tryNominated(potentialActions, valid, fault, acc) ==
    IF potentialActions = <<>> THEN acc
    ELSE LET actionName == Head(potentialActions)
             action == FindAction(actionName)
         IN IF action = "undefined"
                THEN tryNominated(Tail(potentialActions), valid, fault, acc)
            ELSE IF fault = "validate"
                THEN [acc EXCEPT !.tried = Append(@, action), !.threw = TRUE]
            ELSE IF action \in valid
                THEN [acc EXCEPT !.tried = Append(@, action),
                                 !.invoked = Append(@, action),
                                 !.handled = (fault # "handler"),
                                 !.threw = (fault = "handler"),
                                 !.handlerThrew = (fault = "handler")]
            ELSE tryNominated(Tail(potentialActions), valid, fault,
                              [acc EXCEPT !.tried = Append(@, action)])

\* "If still no action handled, use default action".
useDefault(r, fault) ==
    IF r.handled \/ r.threw THEN r
    ELSE IF FindAction("DEFAULT") = "undefined" THEN r
    ELSE [r EXCEPT !.invoked = Append(@, "DEFAULT"),
                   !.handled = (fault # "handler"),
                   !.threw = (fault = "handler"),
                   !.handlerThrew = (fault = "handler")]

\* The body of handleMessage's inner try, after the analysis.
dispatch(analysis, valid, fault) ==
    LET first ==
            IF Truthy(analysis.needsFullValidation) THEN NoDispatch
            ELSE IF ~analysis.hasActions
                THEN [NoDispatch EXCEPT !.threw = TRUE]
            ELSE IF Len(analysis.potentialActions) > 0
                THEN tryNominated(analysis.potentialActions, valid, fault,
                                  NoDispatch)
            ELSE NoDispatch
    IN useDefault(first, fault)

\* handleMessage from the shouldRespond test on: its own catch logs every
\* error raised inside and returns normally.
handleMessage(cls, valid, fault) ==
    LET analysis == analyzeMessageForActions(cls)
        r == IF analysis.threw THEN [NoDispatch EXCEPT !.threw = TRUE]
             ELSE dispatch(analysis, valid, fault)
    IN [tried |-> r.tried, invoked |-> r.invoked, threw |-> r.threw,
        handlerThrew |-> r.handlerThrew, logged |-> r.threw,
        escaped |-> FALSE]

\* bot.on("message"): the catch around handleMessage replies with the
\* generic failure text when an error reaches it.
onMessage(cls, valid, fault) ==
    LET r == handleMessage(cls, valid, fault)
    IN [kind |-> "routed", cls |-> cls, valid |-> valid, fault |-> fault,
        tried |-> r.tried, invoked |-> r.invoked, threw |-> r.threw,
        handlerThrew |-> r.handlerThrew, logged |-> r.logged,
        failureReply |-> r.escaped, loopAlive |-> TRUE]

NoRoute == [kind |-> "none",
            cls |-> [kind |-> "unparsable", hasActions |-> FALSE,
                     potentialActions |-> <<>>,
                     needsFullValidation |-> "missing"],
            valid |-> {"DEFAULT"}, fault |-> "none", tried |-> <<>>,
            invoked |-> <<>>, threw |-> FALSE, handlerThrew |-> FALSE,
            logged |-> FALSE, failureReply |-> FALSE, loopAlive |-> TRUE]

\* The sets of actions whose validate accepts one message; DEFAULT's
\* validate always returns true.
ValidSets ==
    {v \cup {"DEFAULT"} : v \in {w \in SUBSET (ActionNames \ {"DEFAULT"}) :
                                    Cardinality(w) <= MaxValid}}

Faults == {"none", "validate", "handler"}

\* The next update is a message the bot decided to respond to.
Route(cls, valid, fault) ==
    /\ route.kind = "none"
    /\ route' = onMessage(cls, valid, fault)
    /\ UNCHANGED <<sideVars, mentionVars, cache, dlg, ext>>

\* The next update is a message the bot decided not to respond to.
Skip ==
    /\ route.kind = "none"
    /\ route' = [NoRoute EXCEPT !.kind = "skipped"]
    /\ UNCHANGED <<sideVars, mentionVars, cache, dlg, ext>>

\* The handler's promise settles; the message loop waits for the next update.
NextUpdate ==
    /\ route.kind # "none"
    /\ route.loopAlive
    /\ route' = NoRoute
    /\ UNCHANGED <<sideVars, mentionVars, cache, dlg, ext>>

(***************************************************************************)
(* JSON.  A text is a sequence of tokens: the braces, the literal null,    *)
(* string literals (keys and values), and "#", a stretch of prose that is  *)
(* not JSON.  A JavaScript value is a record tagged with its type.         *)
(***************************************************************************)
MaxTextLen == 5       \* tokens in a text given to extractJsonFromResponse

JNull == [type |-> "null"]
JUndefined == [type |-> "undefined"]
JString(s) == [type |-> "string", str |-> s]
JObject(f) == [type |-> "object", fields |-> f]
NoFields == [k \in {} |-> JNull]

IsStringToken(t) == t \notin {"{", "}", "#", "null"}

\* obj[key] = value
PutField(f, key, value) ==
    [k \in DOMAIN f \cup {key} |-> IF k = key THEN value ELSE f[k]]

\* obj?.key
GetField(v, key) ==
    IF v.type = "object" /\ key \in DOMAIN v.fields THEN v.fields[key]
    ELSE JUndefined

ParseFail == [ok |-> FALSE, value |-> JUndefined, next |-> 0]

\* JSON.parse, by recursive descent: a value starting at token i, and the
\* members of an object up to its closing brace.
RECURSIVE ParseValue(_, _)
RECURSIVE ParseMembers(_, _, _)
ParseValue(toks, i) ==
    IF i > Len(toks) THEN ParseFail
    ELSE IF toks[i] = "{" THEN ParseMembers(toks, i + 1, NoFields)
    ELSE IF toks[i] = "null"
        THEN [ok |-> TRUE, value |-> JNull, next |-> i + 1]
    ELSE IF IsStringToken(toks[i])
        THEN [ok |-> TRUE, value |-> JString(toks[i]), next |-> i + 1]
    ELSE ParseFail

ParseMembers(toks, i, acc) ==
    IF i > Len(toks) THEN ParseFail
    ELSE IF toks[i] = "}"
        THEN [ok |-> TRUE, value |-> JObject(acc), next |-> i + 1]
    ELSE IF ~IsStringToken(toks[i]) THEN ParseFail
    ELSE LET v == ParseValue(toks, i + 1)
         IN IF ~v.ok THEN ParseFail
            ELSE ParseMembers(toks, v.next, PutField(acc, toks[i], v.value))

\* JSON.parse(text): throws a SyntaxError unless the whole text is one value.
JSONParse(toks) ==
    LET r == ParseValue(toks, 1)
    IN IF r.ok /\ r.next = Len(toks) + 1
           THEN [threw |-> FALSE, value |-> r.value]
           ELSE [threw |-> TRUE, value |-> JUndefined]

\* The property names the dialog states use, in the order they are written.
KeyOrder == <<"stage", "messageDetails", "pollDetails", "targetGroup",
              "messageContent", "previousMessage", "previousGroup",
              "question", "options">>

\* JSON.stringify(value): a property whose value is undefined is left out.
RECURSIVE JSONStringify(_)
RECURSIVE StringifyMembers(_, _)
JSONStringify(v) ==
    IF v.type = "object"
        THEN <<"{">> \o StringifyMembers(v.fields, KeyOrder) \o <<"}">>
    ELSE IF v.type = "string" THEN <<v.str>>
    ELSE <<"null">>

StringifyMembers(f, keys) ==
    IF keys = <<>> THEN <<>>
    ELSE LET k == Head(keys)
         IN (IF k \in DOMAIN f /\ f[k].type # "undefined"
                 THEN <<k>> \o JSONStringify(f[k])
                 ELSE <<>>)
                \o StringifyMembers(f, Tail(keys))

NoMatch == <<"#">>

\* response.match(/\{[\s\S]*\}/): the quantifier is greedy, so the match
\* runs from the first opening brace to the last closing brace after it.
RegexMatch(toks) ==
    LET opens == {i \in DOMAIN toks : toks[i] = "{"}
        first == CHOOSE i \in opens : \A j \in opens : i <= j
        closes == {j \in DOMAIN toks : toks[j] = "}" /\ j > first}
        lst == CHOOSE j \in closes : \A k \in closes : k <= j
    IN IF opens = {} THEN NoMatch
       ELSE IF closes = {} THEN NoMatch
       ELSE SubSeq(toks, first, lst)

\* extractJsonFromResponse of action/utils.ts (and its copies in the action
\* files): a direct parse first, then a parse of the matched span.
extractJsonFromResponse(response) ==
    LET direct == JSONParse(response)
        jsonMatch == RegexMatch(response)
        inner == JSONParse(jsonMatch)
    IN IF ~direct.threw THEN [threw |-> FALSE, value |-> direct.value]
       ELSE IF jsonMatch # NoMatch
           THEN IF inner.threw THEN [threw |-> FALSE, value |-> JNull]
                ELSE [threw |-> FALSE, value |-> inner.value]
       ELSE [threw |-> FALSE, value |-> JNull]

\* extractJsonFromResponse of action/poll.ts: the matched span only.
pollExtractJsonFromResponse(text) ==
    LET jsonMatch == RegexMatch(text)
        inner == JSONParse(jsonMatch)
    IN IF jsonMatch # NoMatch /\ ~inner.threw
           THEN [threw |-> FALSE, value |-> inner.value]
           ELSE [threw |-> FALSE, value |-> JNull]

\* The texts a model reply can be: prose, braces and one string literal.
Tokens == {"{", "}", "#", "a"}
ResponseTexts == UNION {[1..n -> Tokens] : n \in 0..MaxTextLen}

NoExtract == [op |-> "none", text |-> <<>>, utils |-> JNull, poll |-> JNull,
              threw |-> FALSE]

\* A handler passes the model's reply to extractJsonFromResponse.
ExtractJson(text) ==
    /\ ext.op = "none"
    /\ ext' = [op |-> "extract", text |-> text,
               utils |-> extractJsonFromResponse(text).value,
               poll |-> pollExtractJsonFromResponse(text).value,
               threw |-> extractJsonFromResponse(text).threw
                            \/ pollExtractJsonFromResponse(text).threw]
    /\ UNCHANGED <<sideVars, mentionVars, route, cache, dlg>>

\* The handler goes on with the result; the next reply is awaited.
ExtractDone ==
    /\ ext.op # "none"
    /\ ext' = NoExtract
    /\ UNCHANGED <<sideVars, mentionVars, route, cache, dlg>>

(***************************************************************************)
(* Dialog state (action/sendToGroup.ts, action/poll.ts): one cache entry   *)
(* per feature and room, holding the state as JSON text.                   *)
(***************************************************************************)
Rooms == {1, -1}
Features == {"send_to_group", "poll"}
CacheKeys == Features \X Rooms

NoEntry == [exists |-> FALSE, text |-> <<>>]

\* runtime.cacheManager.get / set / delete
CacheGet(c, key) == c[key]
CacheSet(c, key, text) == [c EXCEPT ![key] = [exists |-> TRUE, text |-> text]]
CacheDelete(c, key) == [c EXCEPT ![key] = NoEntry]

\* Mutant of parseState: a text that does not parse is rethrown.
parseStateRethrowing(state) ==
    IF ~state.exists \/ state.text = <<>>
        THEN [threw |-> FALSE, value |-> JNull]
    ELSE IF JSONParse(state.text).threw
        THEN [threw |-> TRUE, value |-> JUndefined]
    ELSE [threw |-> FALSE, value |-> JSONParse(state.text).value]

\* if (!state) return null; try { return JSON.parse(state) } catch { null }
parseState(state) ==
    IF ~state.exists \/ state.text = <<>>
        THEN [threw |-> FALSE, value |-> JNull]
    ELSE IF JSONParse(state.text).threw
        THEN [threw |-> FALSE, value |-> JNull]
    ELSE [threw |-> FALSE, value |-> JSONParse(state.text).value]

getSendToGroupState(c, roomId) ==
    parseState(CacheGet(c, <<"send_to_group", roomId>>))

\* Mutant of setSendToGroupState: the new state is merged into the stored
\* one, property by property, instead of replacing it.
RECURSIVE MergeFields(_, _, _)
MergeFields(old, new, keys) ==
    IF keys = {} THEN old
    ELSE LET k == CHOOSE x \in keys : TRUE
             v == IF /\ k \in DOMAIN old
                     /\ old[k].type = "object"
                     /\ new[k].type = "object"
                      THEN JObject(MergeFields(old[k].fields, new[k].fields,
                                               DOMAIN new[k].fields))
                      ELSE new[k]
         IN MergeFields(PutField(old, k, v), new, keys \ {k})

setSendToGroupStateMerging(c, roomId, state) ==
    LET old == getSendToGroupState(c, roomId).value
    IN IF old.type = "object" /\ state.type = "object"
           THEN CacheSet(c, <<"send_to_group", roomId>>,
                         JSONStringify(JObject(MergeFields(old.fields,
                                                           state.fields,
                                                           DOMAIN state.fields))))
           ELSE CacheSet(c, <<"send_to_group", roomId>>, JSONStringify(state))

setSendToGroupState(c, roomId, state) ==
    CacheSet(c, <<"send_to_group", roomId>>, JSONStringify(state))

\* Mutant of clearSendToGroupState: nothing is deleted.
clearSendToGroupStateNoDelete(c, roomId) == c

clearSendToGroupState(c, roomId) ==
    CacheDelete(c, <<"send_to_group", roomId>>)

getPollState(c, roomId) == parseState(CacheGet(c, <<"poll", roomId>>))

setPollState(c, roomId, state) ==
    CacheSet(c, <<"poll", roomId>>, JSONStringify(state))

clearPollState(c, roomId) == CacheDelete(c, <<"poll", roomId>>)

\* SendToGroupState and PollState values.
MessageDetails(targetGroup, messageContent) ==
    [targetGroup |-> JString(targetGroup),
     messageContent |-> JString(messageContent)]

SendToGroupState(stage, messageDetails) ==
    JObject([stage |-> JString(stage),
             messageDetails |-> JObject(messageDetails)])

PollState(stage, question, options, targetGroup) ==
    JObject([stage |-> JString(stage),
             pollDetails |-> JObject([question |-> JString(question),
                                      options |-> JString(options),
                                      targetGroup |-> JString(targetGroup)])])

\* Well-formed states given to set in SpecDialogState.
SendStates ==
    {SendToGroupState("confirmation", MessageDetails("g1", "m1")),
     SendToGroupState("confirmation",
                      PutField(MessageDetails("g1", "m2"),
                               "previousMessage", JString("m1"))),
     SendToGroupState("confirmation",
                      PutField(MessageDetails("all", "m1"),
                               "previousGroup", JString("g1"))),
     SendToGroupState("message_collection", MessageDetails("g1", ""))}

PollStates ==
    {PollState("confirmation", "q1", "o1", "g1"),
     PollState("confirmation", "q2", "o1", "g1")}

StatesOf(feature) == IF feature = "poll" THEN PollStates ELSE SendStates

\* Texts that are not JSON: prose, a text cut short, an unclosed object.
MalformedTexts == {<<"#">>, <<"{", "stage", "confirmation">>}

NoOp == [op |-> "none", feature |-> "send_to_group", room |-> 1,
         arg |-> JNull, result |-> JNull, threw |-> FALSE, existed |-> FALSE,
         before |-> JNull, text |-> "", invoked |-> <<>>,
         nominated |-> <<>>, full |-> "missing", sent |-> {}]

NoDlg == [cur |-> NoOp, count |-> 0]

\* An operation on a key, with the state a get returned before it.
Record(op) ==
    [cur |-> [op EXCEPT !.existed = cache[<<op.feature, op.room>>].exists,
                        !.before = parseState(cache[<<op.feature,
                                                      op.room>>]).value],
     count |-> dlg.count]

\* set<Feature>State(runtime, roomId, state)
SetState(feature, roomId, state) ==
    /\ cache' = IF feature = "poll" THEN setPollState(cache, roomId, state)
                ELSE setSendToGroupState(cache, roomId, state)
    /\ dlg' = Record([NoOp EXCEPT !.op = "set", !.feature = feature,
                                  !.room = roomId, !.arg = state])
    /\ UNCHANGED <<sideVars, mentionVars, route, ext>>

\* clear<Feature>State(runtime, roomId)
ClearState(feature, roomId) ==
    /\ cache' = IF feature = "poll" THEN clearPollState(cache, roomId)
                ELSE clearSendToGroupState(cache, roomId)
    /\ dlg' = Record([NoOp EXCEPT !.op = "clear", !.feature = feature,
                                  !.room = roomId])
    /\ UNCHANGED <<sideVars, mentionVars, route, ext>>

\* get<Feature>State(runtime, roomId)
GetState(feature, roomId) ==
    /\ LET r == IF feature = "poll" THEN getPollState(cache, roomId)
                ELSE getSendToGroupState(cache, roomId)
       IN dlg' = Record([NoOp EXCEPT !.op = "get", !.feature = feature,
                                     !.room = roomId, !.result = r.value,
                                     !.threw = r.threw])
    /\ UNCHANGED <<sideVars, mentionVars, route, ext, cache>>

\* The persisted value of a key is damaged outside the program.
Corrupt(feature, roomId, text) ==
    /\ cache[<<feature, roomId>>].exists
    /\ cache' = CacheSet(cache, <<feature, roomId>>, text)
    /\ dlg' = Record([NoOp EXCEPT !.op = "corrupt", !.feature = feature,
                                  !.room = roomId])
    /\ UNCHANGED <<sideVars, mentionVars, route, ext>>

(***************************************************************************)
(* The dialog handlers: sendToGroupAction and pollAction.                  *)
(***************************************************************************)
\* Message texts: a keyword the handlers look for with String.includes on
\* the lower-cased text, a text with none of them, one with two of them,
\* and the empty text.
DialogTexts == {"yes", "no", "send", "hello", "no, don't send", ""}

\* The keywords a text contains.
KeywordsIn(text) ==
    IF text = "no, don't send" THEN {"no", "send"}
    ELSE IF text \in {"yes", "no", "send"} THEN {text}
    ELSE {}

Includes(text, word) == word \in KeywordsIn(text)

\* Mutant of IsEmptyText: no text counts as empty.
IsEmptyTextNever(text) == FALSE

\* !editedMessage
IsEmptyText(text) == text = ""

isConfirmationMessage(text) ==
    Includes(text, "yes") \/ Includes(text, "confirm") \/ Includes(text, "send")

isCancellationMessage(text) ==
    Includes(text, "no") \/ Includes(text, "cancel") \/ Includes(text, "stop")

\* The isConfirmation test of pollAction's validate and handler.
isPollConfirmation(text) ==
    Includes(text, "yes") \/ Includes(text, "confirm")
        \/ Includes(text, "create")

\* JavaScript truthiness of a value read from a parsed state.
IsTruthy(v) ==
    /\ v.type \notin {"undefined", "null"}
    /\ v.type = "string" => v.str # ""

StrOf(v) == IF v.type = "string" THEN v.str ELSE "undefined"

\* The titles of the groups getGroupsByUserId returns for the sender.
GroupSets == {{}, {"g1"}}

\* What the handlers read from the model's reply, after extraction.
NoAnalysis == [kind |-> "null", intent |-> "none", group |-> "null",
               message |-> "null"]

SendAnalyses ==
    {NoAnalysis}
        \cup {[kind |-> "object", intent |-> i, group |-> g, message |-> m] :
                 i \in {"send_message", "select_group", "provide_message",
                        "edit_message", "change_group", "cancel"},
                 g \in {"g1", "all", "null"}, m \in {"m1", "null"}}

PollAnalyses ==
    {NoAnalysis}
        \cup {[kind |-> "object", intent |-> t, group |-> g, message |-> d] :
                 t \in {"create", "list"}, g \in {"g1", "null"},
                 d \in {"q1", "null"}}

\* sendToGroupAction.validate, after the router has set state.handle
sendToGroupValidate(c, roomId, text) == TRUE

\* pollAction.validate, after the router has set state.handle
pollValidate(c, roomId, text) ==
    LET pollState == getPollState(c, roomId).value
    IN IF StrOf(GetField(pollState, "stage")) = "confirmation"
           THEN isPollConfirmation(text)
           ELSE TRUE

\* sendToGroupAction.handler: the cache after it.  Sends and replies leave
\* the cache alone and their errors are caught around each send.
sendToGroupHandler(c, roomId, text, groups, result) ==
    LET sendToGroupState == getSendToGroupState(c, roomId).value
        stage == StrOf(GetField(sendToGroupState, "stage"))
        messageDetails == GetField(sendToGroupState, "messageDetails")
        storedGroup == GetField(messageDetails, "targetGroup")
        storedContent == GetField(messageDetails, "messageContent")
        targetFound == result.group \in groups
        c1 == IF result.intent \in {"send_message", "select_group"}
                  THEN clearSendToGroupState(c, roomId)
                  ELSE c
        confirmationOf(g, m) ==
            SendToGroupState("confirmation",
                             [targetGroup |-> g, messageContent |-> m])
    IN IF /\ stage = "confirmation"
          /\ IsTruthy(messageDetails)
          /\ (isConfirmationMessage(text) \/ isCancellationMessage(text))
           THEN clearSendToGroupState(c, roomId)
       ELSE IF stage = "editing"
           THEN IF IsEmptyText(text) THEN c
                ELSE setSendToGroupState(c, roomId,
                         SendToGroupState("confirmation",
                             [targetGroup |-> storedGroup,
                              messageContent |-> JString(text),
                              previousMessage |-> storedContent]))
       ELSE IF result.kind = "null" THEN c
       ELSE IF result.intent = "send_message"
           THEN IF result.group = "all"
                    THEN IF result.message = "null" THEN c1
                         ELSE setSendToGroupState(c1, roomId,
                                  confirmationOf(JString("all"),
                                                 JString(result.message)))
                ELSE IF ~targetFound THEN c1
                ELSE IF result.message = "null" THEN c1
                ELSE setSendToGroupState(c1, roomId,
                         confirmationOf(JString(result.group),
                                        JString(result.message)))
       ELSE IF result.intent = "select_group"
           THEN IF ~targetFound THEN c1
                ELSE setSendToGroupState(c1, roomId,
                         SendToGroupState("message_collection",
                             MessageDetails(result.group, "")))
       ELSE IF result.intent = "edit_message"
           THEN IF ~IsTruthy(storedGroup) THEN c
                ELSE setSendToGroupState(c, roomId,
                         SendToGroupState("editing",
                             [targetGroup |-> storedGroup,
                              messageContent |-> storedContent,
                              previousMessage |-> storedContent]))
       ELSE IF result.intent = "change_group"
           THEN IF result.group = "null" THEN c
                ELSE IF ~targetFound THEN c
                ELSE IF ~IsTruthy(storedContent) THEN c
                ELSE setSendToGroupState(c, roomId,
                         SendToGroupState("confirmation",
                             [targetGroup |-> JString(result.group),
                              messageContent |-> storedContent,
                              previousGroup |-> storedGroup]))
       ELSE IF result.intent = "cancel"
           THEN clearSendToGroupState(c, roomId)
       ELSE c

\* Mutant of sendToGroupSends: at the confirmation stage the draft is sent
\* whatever the text.
sendToGroupSendsUnconfirmed(c, roomId, text, groups) ==
    LET sendToGroupState == getSendToGroupState(c, roomId).value
        messageDetails == GetField(sendToGroupState, "messageDetails")
        storedGroup == StrOf(GetField(messageDetails, "targetGroup"))
    IN IF /\ StrOf(GetField(sendToGroupState, "stage")) = "confirmation"
          /\ IsTruthy(messageDetails)
           THEN IF storedGroup = "all" THEN groups
                ELSE groups \cap {storedGroup}
       ELSE {}

\* sendToGroupAction.handler: the groups bot.telegram.sendMessage is called
\* for.  sendMessageToGroup is called in the confirmation branch only: for
\* every group of the sender when the target is "all", else for the group
\* found by its title.
sendToGroupSends(c, roomId, text, groups) ==
    LET sendToGroupState == getSendToGroupState(c, roomId).value
        messageDetails == GetField(sendToGroupState, "messageDetails")
        storedGroup == StrOf(GetField(messageDetails, "targetGroup"))
    IN IF /\ StrOf(GetField(sendToGroupState, "stage")) = "confirmation"
          /\ IsTruthy(messageDetails)
          /\ isConfirmationMessage(text)
           THEN IF storedGroup = "all" THEN groups
                ELSE groups \cap {storedGroup}
       ELSE {}

\* pollAction.handler: the cache after it.
pollHandler(c, roomId, text, groups, result) ==
    LET pollState == getPollState(c, roomId).value
        stage == StrOf(GetField(pollState, "stage"))
        pollDetails == GetField(pollState, "pollDetails")
        targetFound == result.group \in groups
    IN IF stage = "confirmation" /\ IsTruthy(pollDetails)
           THEN clearPollState(c, roomId)
       ELSE IF result.kind = "null" THEN c
       ELSE IF result.intent = "create"
           THEN IF ~targetFound THEN c
                ELSE IF result.message = "null" THEN c
                ELSE setPollState(c, roomId,
                         PollState("confirmation", result.message, "o1",
                                   result.group))
       ELSE c

\* What the classifier can return for a message of a dialog.
DialogNominated == {"POLL", "SEND_TO_GROUP"}

DialogClassifications ==
    {[kind |-> "object", hasActions |-> TRUE, potentialActions |-> pa,
      needsFullValidation |-> n] :
        pa \in UNION {[1..k -> DialogNominated] : k \in 0..MaxNominated},
        n \in {"true", "false"}}

\* The actions whose validate accepts the message: the two dialog actions
\* by their own validate, the others as given.
DialogValid(c, roomId, text) ==
    {"DEFAULT"}
        \cup (IF sendToGroupValidate(c, roomId, text)
                  THEN {"SEND_TO_GROUP"} ELSE {})
        \cup (IF pollValidate(c, roomId, text) THEN {"POLL"} ELSE {})

AnalysesFor(invoked) ==
    IF invoked = <<"SEND_TO_GROUP">> THEN SendAnalyses
    ELSE IF invoked = <<"POLL">> THEN PollAnalyses
    ELSE {NoAnalysis}

\* The room the dialogs of SpecDialog take place in.
DialogRoom == 1

MaxDialogMessages == 3    \* messages of the room handled in one behaviour

\* handleMessage for a message of the room: the router picks the action and
\* the action's handler runs to its end.
DialogMessage(text, cls, groups) ==
    /\ dlg.cur.op = "none"
    /\ dlg.count < MaxDialogMessages
    /\ LET invoked == handleMessage(cls, DialogValid(cache, DialogRoom, text),
                                    "none").invoked
       IN \E result \in AnalysesFor(invoked) :
             /\ cache' =
                   IF invoked = <<"SEND_TO_GROUP">>
                       THEN sendToGroupHandler(cache, DialogRoom, text,
                                               groups, result)
                   ELSE IF invoked = <<"POLL">>
                       THEN pollHandler(cache, DialogRoom, text, groups,
                                        result)
                   ELSE cache
             /\ dlg' = [cur |-> [NoOp EXCEPT
                                    !.op = "message", !.room = DialogRoom,
                                    !.text = text, !.invoked = invoked,
                                    !.nominated = cls.potentialActions,
                                    !.full = cls.needsFullValidation,
                                    !.sent =
                                        IF invoked = <<"SEND_TO_GROUP">>
                                            THEN sendToGroupSends(
                                                     cache, DialogRoom,
                                                     text, groups)
                                            ELSE {}],
                        count |-> dlg.count + 1]
    /\ UNCHANGED <<sideVars, mentionVars, route, ext>>

\* The handler's promise settles; the room's next message is awaited.
DialogDone ==
    /\ dlg.cur.op = "message"
    /\ dlg' = [dlg EXCEPT !.cur = NoOp]
    /\ UNCHANGED <<sideVars, mentionVars, route, ext, cache>>

(***************************************************************************)
(* Polls (src/action/poll.ts).  One poll id; the poll is the JSON text     *)
(* under poll:<group>:<id>, a user's vote the key poll_user_vote:<id>:<u>. *)
(* Every await of a callback is a step, so two callbacks can interleave.   *)
(***************************************************************************)
PollOptions == {"o1", "o2"}
NoVote == "none"      \* redis.get of a key that does not exist: null
Procs == {1, 2}       \* updates being handled at the same time

NoPoll == [exists |-> FALSE, creator |-> NullId, status |-> "active",
           total |-> 0, votes |-> [o \in PollOptions |-> 0]]

NoCb == [pc |-> "idle", user |-> NullId, option |-> NoVote, poll |-> NoPoll]

\* Math.max(0, n)
MathMax0(n) == IF n < 0 THEN 0 ELSE n

\* handlePollCreate: the poll as first stored.
newPoll(creatorId) ==
    [exists |-> TRUE, creator |-> creatorId, status |-> "active",
     total |-> 0, votes |-> [o \in PollOptions |-> 0]]

\* "If user voted for a different option, remove their previous vote".
removePreviousVote(p, existingVote) ==
    [p EXCEPT !.votes[existingVote] = MathMax0(@ - 1),
              !.total = MathMax0(@ - 1)]

\* "Record the new vote".
recordVote(p, option) ==
    [p EXCEPT !.votes[option] = @ + 1, !.total = @ + 1]

\* A confirmed poll dialog: handlePollCreate stores the new poll.
PollCreate(u) ==
    /\ ~pollStore.exists
    /\ pollStore' = newPoll(u)
    /\ UNCHANGED <<mentionVars, route, cache, dlg, ext, besidePoll, userVote, cb, pollOps>>

\* handlePollCallback up to its first await: getPoll.  A poll that is
\* missing or closed is answered "no longer active".
VoteGetPoll(p, u, option) ==
    /\ cb[p].pc = "idle"
    /\ pollOps < MaxPollOps
    /\ pollOps' = pollOps + 1
    /\ cb' = [cb EXCEPT ![p] =
                 IF ~pollStore.exists \/ pollStore.status = "closed"
                     THEN NoCb
                     ELSE [pc |-> "getVote", user |-> u, option |-> option,
                           poll |-> pollStore]]
    /\ UNCHANGED <<mentionVars, route, cache, dlg, ext, besidePoll, pollStore, userVote>>

\* redis.get(userVoteKey) and the arithmetic on the poll object read before.
VoteGetExisting(p) ==
    /\ cb[p].pc = "getVote"
    /\ LET existingVote == userVote[cb[p].user]
           option == cb[p].option
       IN cb' = [cb EXCEPT ![p] =
                    IF existingVote # NoVote /\ existingVote = option
                        THEN NoCb
                    ELSE IF existingVote # NoVote
                        THEN [@ EXCEPT !.pc = "storePoll",
                                  !.poll = recordVote(
                                      removePreviousVote(@, existingVote),
                                      option)]
                    ELSE [@ EXCEPT !.pc = "storePoll",
                                   !.poll = recordVote(@, option)]]
    /\ UNCHANGED <<mentionVars, route, cache, dlg, ext, besidePoll, pollStore, userVote, pollOps>>

\* await storePoll(poll): the whole poll is written over the stored one.
VoteStorePoll(p) ==
    /\ cb[p].pc = "storePoll"
    /\ pollStore' = cb[p].poll
    /\ cb' = [cb EXCEPT ![p].pc = "setVote"]
    /\ UNCHANGED <<mentionVars, route, cache, dlg, ext, besidePoll, userVote, pollOps>>

\* await redis.set(userVoteKey, option)
VoteSetUser(p) ==
    /\ cb[p].pc = "setVote"
    /\ userVote' = [userVote EXCEPT ![cb[p].user] = cb[p].option]
    /\ cb' = [cb EXCEPT ![p] = NoCb]
    /\ UNCHANGED <<mentionVars, route, cache, dlg, ext, besidePoll, pollStore, pollOps>>

\* handlePollClose up to its await of storePoll: getPoll, then the status
\* is set on the object read.  A missing poll is answered "not found".
CloseGetPoll(p, u) ==
    /\ cb[p].pc = "idle"
    /\ pollOps < MaxPollOps
    /\ pollOps' = pollOps + 1
    /\ cb' = [cb EXCEPT ![p] =
                 IF ~pollStore.exists THEN NoCb
                 ELSE [pc |-> "closeStore", user |-> u, option |-> NoVote,
                       poll |-> [pollStore EXCEPT !.status = "closed"]]]
    /\ UNCHANGED <<mentionVars, route, cache, dlg, ext, besidePoll, pollStore, userVote>>

\* await storePoll(poll) of handlePollClose.
CloseStorePoll(p) ==
    /\ cb[p].pc = "closeStore"
    /\ pollStore' = cb[p].poll
    /\ cb' = [cb EXCEPT ![p] = NoCb]
    /\ UNCHANGED <<mentionVars, route, cache, dlg, ext, besidePoll, userVote, pollOps>>

(***************************************************************************)
(* Two deliveries of one update handled at the same time by                *)
(* sendToGroupAction.handler.  Each await of the confirmation branch is a  *)
(* step: the read of the state, the send, the clear.                       *)
(***************************************************************************)
RaceGroups == {"g1"}  \* the groups of the sender

RaceKey == <<"send_to_group", DialogRoom>>

NoHandler == [pc |-> "idle", text |-> "", entry |-> NoEntry]

\* The cache as the handler saw it when it read the room's state.
CacheAtEntry(p) == [cache EXCEPT ![RaceKey] = hs[p].entry]

\* The handler takes the confirmation branch: it returns after the clear.
InConfirmationBranch(p) ==
    LET st == getSendToGroupState(CacheAtEntry(p), DialogRoom).value
    IN /\ StrOf(GetField(st, "stage")) = "confirmation"
       /\ IsTruthy(GetField(st, "messageDetails"))
       /\ (isConfirmationMessage(hs[p].text)
               \/ isCancellationMessage(hs[p].text))

\* A turn that drafts a message: the handler stores the confirmation state.
DraftStored(group, content) ==
    /\ \A p \in Procs : hs[p].pc = "idle"
    /\ ~cache[RaceKey].exists
    /\ cache' = sendToGroupHandler(cache, DialogRoom, "hello", RaceGroups,
                                   [kind |-> "object",
                                    intent |-> "send_message",
                                    group |-> group, message |-> content])
    /\ groupLog' = 0
    /\ UNCHANGED <<mentionVars, route, dlg, ext, besideRace, hs>>

\* A delivery of the answer reaches the handler: getSendToGroupState.  The
\* deliveries under way are of the same update.
HandlerEntry(p, text) ==
    /\ hs[p].pc = "idle"
    /\ \A q \in Procs : hs[q].pc # "idle" => hs[q].text = text
    /\ hs' = [hs EXCEPT ![p] = [pc |-> "entered", text |-> text,
                                entry |-> cache[RaceKey]]]
    /\ UNCHANGED <<mentionVars, route, dlg, ext, besideRace, cache, groupLog>>

\* The confirmation branch up to the end of its sends.
HandlerSend(p) ==
    /\ hs[p].pc = "entered"
    /\ InConfirmationBranch(p)
    /\ groupLog' = groupLog
           + Cardinality(sendToGroupSends(CacheAtEntry(p), DialogRoom,
                                          hs[p].text, RaceGroups))
    /\ hs' = [hs EXCEPT ![p].pc = "clear"]
    /\ UNCHANGED <<mentionVars, route, dlg, ext, besideRace, cache>>

\* await clearSendToGroupState(runtime, message.roomId)
HandlerClear(p) ==
    /\ hs[p].pc = "clear"
    /\ cache' = clearSendToGroupState(cache, DialogRoom)
    /\ hs' = [hs EXCEPT ![p] = NoHandler]
    /\ UNCHANGED <<mentionVars, route, dlg, ext, besideRace, groupLog>>

\* The other branches: what the handler writes, from the state it read, is
\* written over the room's key.
HandlerRest(p, result) ==
    /\ hs[p].pc = "entered"
    /\ ~InConfirmationBranch(p)
    /\ LET after == sendToGroupHandler(CacheAtEntry(p), DialogRoom,
                                       hs[p].text, RaceGroups,
                                       result)[RaceKey]
       IN /\ cache' = IF after = hs[p].entry THEN cache
                      ELSE [cache EXCEPT ![RaceKey] = after]
          /\ groupLog' = IF after # hs[p].entry /\ after.exists THEN 0
                         ELSE groupLog
    /\ hs' = [hs EXCEPT ![p] = NoHandler]
    /\ UNCHANGED <<mentionVars, route, dlg, ext, besideRace>>

(***************************************************************************)
(* Overlapping runs of checkMentionTimeouts, and markMentionsAsRead running *)
(* beside them.  The interval timer and the MENTION_AUTO action start a    *)
(* sweep without waiting for the one before; the message handler starts    *)
(* markMentionsAsRead without awaiting it.  A step is the stretch between  *)
(* two awaits that matter: the reads, the notification, the clean-up.      *)
(***************************************************************************)
Sweeps == {1, 2}      \* runs of checkMentionTimeouts under way together

NoteKeys == Users \X (Chats \X (1..MaxMessages))

NoSweep == [pc |-> "idle", user |-> NullId, toNotify |-> {}]

NoMark == [pc |-> "idle", user |-> NullId, chat |-> Undefined, refs |-> {}]

\* The references of a user's index whose record reads as unresponded.
unrespondedOf(st, userId) ==
    {SplitRef(e) : e \in
        {x \in ZRangeWithScores(st.userIdx[userId]) :
            HGetAll(st.records, SplitRef(x)).status = "unresponded"}}

\* A group message of a tracked user that mentions user u: trackMention.
RaceMention(from, u, c) ==
    /\ handled < MaxMessages
    /\ SetStore(trackMention(CurrentStore, from, u, c, nextId[c], now))
    /\ nextId' = [nextId EXCEPT ![c] = @ + 1]
    /\ handled' = handled + 1
    /\ UNCHANGED <<tracked, privateChat, now, sweepKeys, last, route, cache,
                   dlg, ext, besideSweepRace, sw, mk, notes, swept>>

\* A sweep reaches user u: zrange of the index and hgetall of each record.
SweepRead(s, u) ==
    /\ sw[s].pc = "idle"
    /\ unrespondedOf(CurrentStore, u) # {}
    /\ sw' = [sw EXCEPT ![s] = [pc |-> "notify", user |-> u,
                                toNotify |-> unrespondedOf(CurrentStore, u)]]
    /\ UNCHANGED <<mentionVars, route, cache, dlg, ext, besideSweepRace,
                   mk, notes, swept>>

\* await handleUnrespondedMentions(userId, mentionsToNotify, bot) returns:
\* the user has been sent the mentions collected at the read.
SweepNotify(s) ==
    /\ sw[s].pc = "notify"
    /\ notes' = [n \in NoteKeys |->
                    IF n[1] = sw[s].user /\ n[2] \in sw[s].toNotify
                        THEN notes[n] + 1 ELSE notes[n]]
    /\ sw' = [sw EXCEPT ![s].pc = "cleanup"]
    /\ UNCHANGED <<mentionVars, route, cache, dlg, ext, besideSweepRace,
                   mk, swept>>

\* "Clean up all processed mentions": the pipeline of zrem and del.
SweepCleanup(s) ==
    /\ sw[s].pc = "cleanup"
    /\ SetStore(cleanupPipeline(CurrentStore, sw[s].user,
                                {[mentionKey |-> k, hashKey |-> k] :
                                     k \in sw[s].toNotify}))
    /\ swept' = swept \cup sw[s].toNotify
    /\ sw' = [sw EXCEPT ![s] = NoSweep]
    /\ UNCHANGED <<tracked, privateChat, nextId, handled, now, sweepKeys,
                   last, route, cache, dlg, ext, besideSweepRace, mk, notes>>

\* markMentionsAsRead(userId, chatId) up to the reply of zrangebyscore.
MarkRead(u, c) ==
    /\ mk.pc = "idle"
    /\ userIdx[u] # {}
    /\ mk' = [pc |-> "loop", user |-> u, chat |-> c,
              refs |-> ZRangeWithScores(userIdx[u])]
    /\ UNCHANGED <<mentionVars, route, cache, dlg, ext, besideSweepRace,
                   sw, notes, swept>>

\* One turn of markMentionsAsRead's loop: hset, zrem, zrem for an element
\* of the reply read at the start.
MarkOne(e) ==
    /\ mk.pc = "loop"
    /\ e \in mk.refs
    /\ SetStore(markOneAsRead(CurrentStore, mk.user, mk.chat, e))
    /\ mk' = IF mk.refs = {e} THEN NoMark ELSE [mk EXCEPT !.refs = @ \ {e}]
    /\ UNCHANGED <<tracked, privateChat, nextId, handled, now, sweepKeys,
                   last, route, cache, dlg, ext, besideSweepRace, sw, notes,
                   swept>>

(***************************************************************************)
(* The rate limiter of private messages (src/telegram/rateLimiter.ts) and  *)
(* its gate in the message handler.  The check and the increment are two   *)
(* awaits, so the messages of one user handled together interleave there.  *)
(***************************************************************************)
maxMessages == 5      \* DEFAULT_CONFIG.maxMessages

NoGate == [pc |-> "idle", user |-> NullId]

\* isRateLimited(userId), from the values of the two keys.
isRateLimited(cooldown, count) ==
    IF cooldown THEN [limited |-> TRUE, setCooldown |-> FALSE]
    ELSE IF count >= maxMessages
        THEN [limited |-> TRUE, setCooldown |-> TRUE]
    ELSE [limited |-> FALSE, setCooldown |-> FALSE]

\* A private message of user u reaches the gate: await isRateLimited.  A
\* limited message is answered and dropped.
RateCheck(p, u) ==
    /\ gate[p].pc = "idle"
    /\ LET r == isRateLimited(rlCooldown[u], rlCount[u])
       IN /\ rlCooldown' = [rlCooldown EXCEPT ![u] = @ \/ r.setCooldown]
          /\ gate' = [gate EXCEPT ![p] =
                         IF r.limited THEN [pc |-> "rejected", user |-> u]
                         ELSE [pc |-> "admitted", user |-> u]]
    /\ UNCHANGED <<mentionVars, route, cache, dlg, ext, besideRate, rlCount>>

\* await incrementMessageCount(userId): MULTI of incr and expire.
RateIncrement(p) ==
    /\ gate[p].pc = "admitted"
    /\ rlCount' = [rlCount EXCEPT ![gate[p].user] = @ + 1]
    /\ gate' = [gate EXCEPT ![p] = NoGate]
    /\ UNCHANGED <<mentionVars, route, cache, dlg, ext, besideRate,
                   rlCooldown>>

\* The reply to a limited message has been sent; the handler returns.
RateRejected(p) ==
    /\ gate[p].pc = "rejected"
    /\ gate' = [gate EXCEPT ![p] = NoGate]
    /\ UNCHANGED <<mentionVars, route, cache, dlg, ext, besideRate, rlCount,
                   rlCooldown>>

\* The counter key rate_limit:<u> expires: the counting window ends.
CounterExpires(u) ==
    /\ rlCount[u] > 0
    /\ rlCount' = [rlCount EXCEPT ![u] = 0]
    /\ UNCHANGED <<mentionVars, route, cache, dlg, ext, besideRate,
                   rlCooldown, gate>>

\* The key rate_limit_cooldown:<u> expires.
CooldownExpires(u) ==
    /\ rlCooldown[u]
    /\ rlCooldown' = [rlCooldown EXCEPT ![u] = FALSE]
    /\ UNCHANGED <<mentionVars, route, cache, dlg, ext, besideRate, rlCount,
                   gate>>

Init ==
    /\ records = [k \in {} |-> NoRecord]
    /\ userIdx = [u \in MentionIds |-> {}]
    /\ chatIdx = [c \in Chats |-> {}]
    /\ tracked = [u \in MentionIds |-> FALSE]
    /\ privateChat = [u \in MentionIds |-> NullId]
    /\ nextId = [c \in Chats |-> 1]
    /\ handled = 0
    /\ now = 1
    /\ sweepKeys = {}
    /\ last = NoLast
    /\ route = NoRoute
    /\ cache = [k \in CacheKeys |-> NoEntry]
    /\ dlg = NoDlg
    /\ ext = NoExtract
    /\ pollStore = NoPoll
    /\ userVote = [u \in Users |-> NoVote]
    /\ cb = [p \in Procs |-> NoCb]
    /\ pollOps = 0
    /\ hs = [p \in Procs |-> NoHandler]
    /\ groupLog = 0
    /\ sw = [s \in Sweeps |-> NoSweep]
    /\ mk = NoMark
    /\ notes = [n \in NoteKeys |-> 0]
    /\ swept = {}
    /\ rlCount = [u \in Users |-> 0]
    /\ rlCooldown = [u \in Users |-> FALSE]
    /\ gate = [p \in Procs |-> NoGate]

NextMention ==
    \/ \E u \in Users : BotAdded(u)
    \/ \E u \in Users : PrivateMessage(u)
    \/ /\ handled < MaxMessages
       /\ \E u \in Users, c \in Chats, es \in EntityLists :
              GroupMessage(u, c, es)
    \/ SweepStart
    \/ \E u \in sweepKeys : \E f \in SUBSET SendTargets(u) : SweepUser(u, f)

\* No code path of the mention store reads a timestamp or a score back (the
\* sweep tests the status only), so SpecMention lets every Date.now() read
\* the same value; SpecMentionTimed lets the clock advance between steps.
SpecMention == Init /\ [][NextMention]_vars

NextMentionTimed == NextMention \/ Tick

SpecMentionTimed == Init /\ [][NextMentionTimed]_vars

NextRouter ==
    \/ /\ route.kind = "none"
       /\ \E cls \in Classifications, valid \in ValidSets, fault \in Faults :
              Route(cls, valid, fault)
    \/ Skip
    \/ NextUpdate

SpecRouter == Init /\ [][NextRouter]_vars

\* The sweep with store reads that can fail.
NextSweepFaults ==
    \/ NextMention
    \/ \E u \in sweepKeys : SweepAbort(u)

SpecSweepFaults == Init /\ [][NextSweepFaults]_vars

\* The timer keeps firing, a sweep that has started runs to its end, and
\* for each user a delivery succeeds in the end.
SpecMentionFair ==
    /\ SpecMention
    /\ WF_vars(SweepStart)
    /\ WF_vars(\E u \in sweepKeys : \E f \in SUBSET SendTargets(u) :
                   SweepUser(u, f))
    /\ \A u \in Users : SF_vars(SweepUser(u, {}))

\* The state accessors by themselves, with a store that can be damaged.
NextDialogState ==
    \/ \E f \in Features, r \in Rooms : \E s \in StatesOf(f) :
           SetState(f, r, s)
    \/ \E f \in Features, r \in Rooms : ClearState(f, r)
    \/ \E f \in Features, r \in Rooms : GetState(f, r)
    \/ \E f \in Features, r \in Rooms, t \in MalformedTexts :
           Corrupt(f, r, t)

SpecDialogState == Init /\ [][NextDialogState]_vars

\* The messages of one room, routed to the dialog handlers.
NextDialog ==
    \/ /\ dlg.cur.op = "none"
       /\ dlg.count < MaxDialogMessages
       /\ \E text \in DialogTexts, cls \in DialogClassifications,
             groups \in GroupSets : DialogMessage(text, cls, groups)
    \/ DialogDone

SpecDialog == Init /\ [][NextDialog]_vars

NextExtract ==
    \/ /\ ext.op = "none"
       /\ \E text \in ResponseTexts : ExtractJson(text)
    \/ ExtractDone

SpecExtract == Init /\ [][NextExtract]_vars

\* Polls: creation, vote callbacks and close requests, interleaved at their
\* awaits.
NextPoll ==
    \/ \E u \in Users : PollCreate(u)
    \/ \E p \in Procs, u \in Users, o \in PollOptions : VoteGetPoll(p, u, o)
    \/ \E p \in Procs : VoteGetExisting(p)
    \/ \E p \in Procs : VoteStorePoll(p)
    \/ \E p \in Procs : VoteSetUser(p)
    \/ \E p \in Procs, u \in Users : CloseGetPoll(p, u)
    \/ \E p \in Procs : CloseStorePoll(p)

SpecPoll == Init /\ [][NextPoll]_vars

\* What the analysis of a bare answer comes back as: nothing usable, a new
\* request to send, or a cancellation.
RaceAnalyses ==
    {r \in SendAnalyses : r.intent \in {"none", "send_message", "cancel"}}

\* A drafted message and the deliveries of the answer to it.
NextConfirmRace ==
    \/ \E g \in {"g1", "all"}, m \in {"m1"} : DraftStored(g, m)
    \/ \E p \in Procs, text \in {"yes", "no", "hello"} : HandlerEntry(p, text)
    \/ \E p \in Procs : HandlerSend(p)
    \/ \E p \in Procs : HandlerClear(p)
    \/ \E p \in Procs : \E result \in RaceAnalyses : HandlerRest(p, result)

SpecConfirmRace == Init /\ [][NextConfirmRace]_vars

\* Mentions, sweeps that overlap and markMentionsAsRead beside them.
NextSweepRace ==
    \/ \E from \in Users, u \in Users, c \in Chats : RaceMention(from, u, c)
    \/ \E s \in Sweeps, u \in Users : SweepRead(s, u)
    \/ \E s \in Sweeps : SweepNotify(s)
    \/ \E s \in Sweeps : SweepCleanup(s)
    \/ \E u \in Users, c \in Chats : MarkRead(u, c)
    \/ \E e \in mk.refs : MarkOne(e)

SpecSweepRace == Init /\ [][NextSweepRace]_vars

\* Private messages at the rate-limit gate.
NextRate ==
    \/ \E p \in Procs, u \in Users : RateCheck(p, u)
    \/ \E p \in Procs : RateIncrement(p)
    \/ \E p \in Procs : RateRejected(p)
    \/ \E u \in Users : CounterExpires(u)
    \/ \E u \in Users : CooldownExpires(u)

SpecRate == Init /\ [][NextRate]_vars

(***************************************************************************)

(* Properties of the sweep and the mention store.                          *)
(***************************************************************************)
SweptUser(l) == l.op = "sweepUser" /\ l.notified # {}

\* C1 (as claimed): when delivery of a user's notification fails in a sweep,
\* none of the user's mention records or index entries is removed, on the
\* private-chat path and on the in-group fallback path alike.
C1_NotifyThenDelete ==
    [][(SweptUser(last') /\ last'.failed # {})
          => (records' = records /\ userIdx' = userIdx
                 /\ chatIdx' = chatIdx)]_vars

\* C2 (as claimed): whenever no sweep is under way, every entry of a
\* per-user index and of a per-chat index refers to an existing mention
\* record, and a mention is in the per-user index of U under chat C exactly
\* when it is in the per-chat index of C under user U.
C2_IndexConsistency ==
    sweepKeys = {} =>
        /\ \A u \in MentionIds : \A k \in ZMembers(userIdx[u]) :
              /\ k \in DOMAIN records
              /\ <<u, k[2]>> \in ZMembers(chatIdx[k[1]])
        /\ \A c \in Chats : \A m \in ZMembers(chatIdx[c]) :
              /\ <<c, m[2]>> \in DOMAIN records
              /\ <<c, m[2]>> \in ZMembers(userIdx[m[1]])

Routed == route.kind = "routed"

IsRegistered(name) == name \in ActionNames

\* The first action, in declared order, whose validate accepts the message.
FallbackTarget(valid) ==
    Actions[CHOOSE i \in DOMAIN Actions :
                /\ Actions[i] \in valid
                /\ \A j \in 1..(i - 1) : Actions[j] \notin valid]

Nominations == route.cls.potentialActions

GaveList == route.cls.kind = "object" /\ route.cls.hasActions

\* C5 (as claimed): when no action was nominated, or the single nominated
\* action's validate returns false, the handler invoked is that of the first
\* action in declared order whose validate returns true, the default action
\* only if no other validates.
C5_FallbackSweep ==
    (/\ Routed
     /\ route.fault = "none"
     /\ GaveList
     /\ \/ Nominations = <<>>
        \/ /\ Len(Nominations) = 1
           /\ IsRegistered(Nominations[1])
           /\ Nominations[1] \notin route.valid)
        => route.invoked = <<FallbackTarget(route.valid)>>

\* C6 (as claimed): when the classifier nominates exactly one registered
\* action and its validate returns true, that action's handler and no other
\* is invoked.
C6_SingleNomination ==
    (/\ Routed
     /\ GaveList
     /\ Len(Nominations) = 1
     /\ IsRegistered(Nominations[1])
     /\ Nominations[1] \in route.valid
     /\ route.fault # "validate")
        => route.invoked = <<Nominations[1]>>

\* C6 (amended): when the classifier nominates exactly one registered action
\* without asking for full validation (needsFullValidation is not true) and
\* the action's validate returns true, that action is the only one validated
\* and the only one whose handler is invoked.
C6_SingleConfidentNomination ==
    (/\ Routed
     /\ GaveList
     /\ Len(Nominations) = 1
     /\ IsRegistered(Nominations[1])
     /\ Nominations[1] \in route.valid
     /\ route.cls.needsFullValidation # "true"
     /\ route.fault # "validate")
        => /\ route.invoked = <<Nominations[1]>>
           /\ route.tried = <<Nominations[1]>>

C6_Witness ==
    /\ Routed
    /\ Nominations = <<"POLL">>
    /\ route.cls.needsFullValidation = "false"
    /\ {"BAN", "POLL"} \subseteq route.valid
    /\ route.invoked = <<"POLL">>

C8_ClassifierFailureFallsBack ==
    (/\ Routed
     /\ route.fault = "none"
     /\ route.cls.kind \in {"throws", "unparsable"})
        => /\ route.invoked = <<FallbackTarget(route.valid)>>
           /\ ~route.threw

\* C9 (as claimed): every message the bot decided to respond to ends with
\* some action's handler invoked, whatever the classifier returned.
C9_AlwaysDispatched ==
    (Routed /\ route.fault = "none") => route.invoked # <<>>

\* C10 (as claimed): when a handler throws, it is not invoked again, the
\* error is logged, the generic failure reply is sent, and the message loop
\* stays alive.
C10_HandlerErrorReported ==
    (Routed /\ route.handlerThrew)
        => /\ Len(route.invoked) = 1
           /\ route.logged
           /\ route.failureReply
           /\ route.loopAlive

(***************************************************************************)
(* Properties of the dialog state.                                         *)
(***************************************************************************)
StateOf(c, feature, roomId) == parseState(CacheGet(c, <<feature, roomId>>))

AtConfirmation(c, feature, roomId) ==
    StrOf(GetField(StateOf(c, feature, roomId).value, "stage"))
        = "confirmation"

\* The message answers the feature's confirmation prompt with a yes or a no.
IsAnswer(feature, text) ==
    IF feature = "poll"
        THEN isPollConfirmation(text) \/ isCancellationMessage(text)
        ELSE isConfirmationMessage(text) \/ isCancellationMessage(text)

\* The action that owns a feature's dialog.
ActionOf(feature) == IF feature = "poll" THEN "POLL" ELSE "SEND_TO_GROUP"

\* C11 (as claimed): when a room's send-to-group or poll dialog is at the
\* confirmation stage, the user's message is a confirmation or a
\* cancellation, and the classifier nominates the dialog's own action and
\* nothing else, then after the message has been routed no state of that
\* dialog remains stored for the room.
C11_ConfirmationCleared ==
    [][\A f \in Features :
          (/\ dlg'.cur.op = "message"
           /\ AtConfirmation(cache, f, dlg'.cur.room)
           /\ IsAnswer(f, dlg'.cur.text)
           /\ dlg'.cur.nominated = <<ActionOf(f)>>
           /\ dlg'.cur.full = "false")
              => ~cache'[<<f, dlg'.cur.room>>].exists]_vars

\* C12 (as claimed): a room never holds a send-to-group dialog state and a
\* poll dialog state at the same time.
C12_OneDialogPerRoom ==
    \A r \in Rooms :
        ~(/\ cache[<<"send_to_group", r>>].exists
          /\ cache[<<"poll", r>>].exists)

\* The stored state the handler of a feature leaves behind.
AfterHandler(c, feature, roomId, text, groups, result) ==
    IF feature = "poll"
        THEN StateOf(pollHandler(c, roomId, text, groups, result),
                     feature, roomId)
        ELSE StateOf(sendToGroupHandler(c, roomId, text, groups, result),
                     feature, roomId)

\* C13: a get of a key whose stored text does not parse returns null and
\* throws nothing, for the send-to-group and the poll state alike, and the
\* feature's handler then leaves the state it would leave with no entry
\* stored.
C13_MalformedReadsAbsent ==
    (/\ dlg.cur.op = "get"
     /\ CacheGet(cache, <<dlg.cur.feature, dlg.cur.room>>).exists
     /\ JSONParse(CacheGet(cache, <<dlg.cur.feature, dlg.cur.room>>).text).threw)
        => /\ dlg.cur.result = JNull
           /\ ~dlg.cur.threw
           /\ \A text \in DialogTexts, groups \in GroupSets,
                 result \in SendAnalyses \cup PollAnalyses :
                 AfterHandler(cache, dlg.cur.feature, dlg.cur.room, text,
                              groups, result)
                     = AfterHandler(CacheDelete(cache, <<dlg.cur.feature,
                                                         dlg.cur.room>>),
                                    dlg.cur.feature, dlg.cur.room, text,
                                    groups, result)

C13_Witness ==
    /\ dlg.cur.op = "get"
    /\ dlg.cur.feature = "poll"
    /\ dlg.cur.existed
    /\ CacheGet(cache, <<"poll", dlg.cur.room>>).text
          = <<"{", "stage", "confirmation">>
    /\ dlg.cur.result = JNull

\* C14: set replaces the stored state.  After set(R, s2) a get of R returns
\* s2 whatever R held before, a get returns what the store holds, and in
\* every reachable store get(set(set(store, R, s1), R, s2)) = s2 for all
\* well-formed s1, s2.
C14_LastWriterWins ==
    /\ dlg.cur.op = "set"
           => StateOf(cache, dlg.cur.feature, dlg.cur.room)
                 = [threw |-> FALSE, value |-> dlg.cur.arg]
    /\ dlg.cur.op = "get"
           => (/\ ~dlg.cur.threw
               /\ dlg.cur.result
                     = StateOf(cache, dlg.cur.feature, dlg.cur.room).value)
    /\ \A r \in Rooms : \A s1, s2 \in SendStates :
           getSendToGroupState(
               setSendToGroupState(setSendToGroupState(cache, r, s1), r, s2),
               r).value = s2

C14_Witness ==
    /\ dlg.cur.op = "set"
    /\ dlg.cur.feature = "send_to_group"
    /\ dlg.cur.before \in SendStates
    /\ IsTruthy(GetField(GetField(dlg.cur.before, "messageDetails"),
                         "previousMessage"))
    /\ ~IsTruthy(GetField(GetField(dlg.cur.arg, "messageDetails"),
                          "previousMessage"))
    /\ StateOf(cache, "send_to_group", dlg.cur.room).value = dlg.cur.arg

\* C15: after clear(R) a get of R returns null; a clear of a room with no
\* state throws nothing and leaves the store as it was.
C15_ClearIdempotent ==
    [][dlg'.cur.op = "clear" =>
          /\ ~dlg'.cur.threw
          /\ StateOf(cache', dlg'.cur.feature, dlg'.cur.room).value = JNull
          /\ ~cache'[<<dlg'.cur.feature, dlg'.cur.room>>].exists
          /\ ~cache[<<dlg'.cur.feature, dlg'.cur.room>>].exists
                => cache' = cache]_vars

C15_Witness ==
    /\ dlg.cur.op = "clear"
    /\ dlg.cur.feature = "send_to_group"
    /\ ~dlg.cur.existed
    /\ ~cache[<<"send_to_group", dlg.cur.room>>].exists
    /\ cache[<<"send_to_group", -dlg.cur.room>>].exists

(***************************************************************************)
(* Further properties of the sweep.                                        *)
(***************************************************************************)
MentionKeys == Chats \X (1..MaxMessages)

\* The sweep has just sent user u a notification that lists mention k.
Notified(u, k) ==
    /\ last.op = "sweepUser"
    /\ last.user = u
    /\ k \in last.notified
    /\ last.failed = {}

\* Mention k is out of u's pending index, its record marked as answered.
Closed(u, k) ==
    /\ k \notin ZMembers(userIdx[u])
    /\ HGetAll(records, k).status \in {"read", "responded"}

\* C16 (as claimed): with sweeps that keep running and deliveries that
\* succeed in the end, every mention referenced by a user's pending index is
\* eventually notified to that user or closed by a response.
C16_AtLeastOnce ==
    \A u \in Users : \A k \in MentionKeys :
        (k \in ZMembers(userIdx[u])) ~> (Notified(u, k) \/ Closed(u, k))

\* C17 (as claimed): once the sweep has processed a user, every reference
\* left in that user's pending index is to an unresponded record.
C17_SweepPrunes ==
    last.op = "sweepUser" =>
        \A k \in ZMembers(userIdx[last.user]) :
            HGetAll(records, k).status = "unresponded"

\* C18 (as claimed): a mention the sweep notifies was created before the
\* sweep's reading of the clock; one created at that reading is too young.
C18_OnlyPastThreshold ==
    [][last'.op = "sweepUser" =>
          \A k \in last'.notified : HGetAll(records, k).timestamp < now]_vars

\* C19 (as claimed): whatever fails while the sweep is at one user, the
\* sweep goes on to the other users it read: only that user leaves the set
\* of users still to process.
C19_FailureIsolated ==
    [][last'.op \in {"sweepUser", "sweepAbort"} =>
          sweepKeys' = sweepKeys \ {last'.user}]_vars

(***************************************************************************)
(* Properties of the JSON extraction.                                      *)
(***************************************************************************)
\* The index of the brace that closes the object whose members start at j,
\* or 0 if it is never closed.
RECURSIVE Closing(_, _, _)
Closing(toks, j, depth) ==
    IF j > Len(toks) THEN 0
    ELSE IF toks[j] = "{" THEN Closing(toks, j + 1, depth + 1)
    ELSE IF toks[j] = "}"
        THEN IF depth = 1 THEN j ELSE Closing(toks, j + 1, depth - 1)
    ELSE Closing(toks, j + 1, depth)

FirstBalancedSpan(toks) ==
    LET starts == {i \in DOMAIN toks :
                      toks[i] = "{" /\ Closing(toks, i + 1, 1) # 0}
        first == CHOOSE i \in starts : \A j \in starts : i <= j
    IN IF starts = {} THEN NoMatch
       ELSE SubSeq(toks, first, Closing(toks, first + 1, 1))

ParsedFirstSpan(toks) ==
    IF JSONParse(FirstBalancedSpan(toks)).threw THEN JNull
    ELSE JSONParse(FirstBalancedSpan(toks)).value

\* C20 (as claimed): for every text, extraction throws nothing and returns
\* the object parsed from the first balanced {...} span of the text, or null
\* when there is no such span or it does not parse.
C20_FirstBalancedObject ==
    ext.op = "extract" =>
        /\ ~ext.threw
        /\ ext.utils = ParsedFirstSpan(ext.text)
        /\ ext.poll = ParsedFirstSpan(ext.text)

(***************************************************************************)
(* Names the classifier made up.                                           *)
(***************************************************************************)
\* The nominated names that are registered, in their order.
KnownOnly(potentialActions) ==
    SelectSeq(potentialActions, LAMBDA n : n \in ActionNames)

\* C21: a nominated name that matches no registered action is ignored.  No
\* handler is tried or invoked under a name that is not registered, and the
\* message is routed as it is when the list holds the registered names only.
C21_UnknownNameIgnored ==
    route.kind = "routed" =>
        LET r == handleMessage(
                     [route.cls EXCEPT
                          !.potentialActions = KnownOnly(@)],
                     route.valid, route.fault)
        IN /\ \A i \in DOMAIN route.tried : route.tried[i] \in ActionNames
           /\ \A i \in DOMAIN route.invoked : route.invoked[i] \in ActionNames
           /\ route.tried = r.tried
           /\ route.invoked = r.invoked
           /\ route.threw = r.threw
           /\ route.handlerThrew = r.handlerThrew

\* An unregistered name comes first in the list and the registered name
\* after it is the action invoked.
C21_Witness ==
    /\ route.kind = "routed"
    /\ route.cls.kind = "object"
    /\ route.cls.needsFullValidation = "false"
    /\ route.cls.potentialActions = <<"UNKNOWN", "POLL">>
    /\ route.fault = "none"
    /\ route.invoked = <<"POLL">>

(***************************************************************************)
(* Properties of the polls.                                                *)
(***************************************************************************)
\* The sum of the per-option counts of a poll.
RECURSIVE SumVotes(_, _)
SumVotes(votes, opts) ==
    IF opts = {} THEN 0
    ELSE LET o == CHOOSE x \in opts : TRUE
         IN votes[o] + SumVotes(votes, opts \ {o})

Voters == {u \in Users : userVote[u] # NoVote}

PollIdle == \A p \in Procs : cb[p].pc = "idle"

\* C22 (as claimed): a close request made by a user who is not the poll's
\* creator leaves the stored poll's status and results as they were.
C22_OnlyCreatorCloses ==
    [][\A p \in Procs :
          (/\ cb[p].pc = "closeStore"
           /\ cb'[p].pc = "idle"
           /\ cb[p].user # pollStore.creator)
          => /\ pollStore'.status = pollStore.status
             /\ pollStore'.total = pollStore.total
             /\ pollStore'.votes = pollStore.votes]_vars

\* C23 (as claimed): whenever no callback is under way, the total of an
\* active poll is the number of users with a recorded vote and the sum of
\* the per-option counts.
C23_OneVotePerUser ==
    (pollStore.exists /\ pollStore.status = "active" /\ PollIdle) =>
        /\ pollStore.total = Cardinality(Voters)
        /\ pollStore.total = SumVotes(pollStore.votes, PollOptions)

(***************************************************************************)
(* Properties of the send-to-group dialog.                                 *)
(***************************************************************************)
\* The room's send-to-group state has stage confirmation and message details.
DraftReady(c, roomId) ==
    LET st == StateOf(c, "send_to_group", roomId).value
    IN /\ StrOf(GetField(st, "stage")) = "confirmation"
       /\ GetField(st, "messageDetails").type = "object"

\* The step is the handling of one message of the room.
MessageStep == dlg.cur.op = "none" /\ dlg'.cur.op = "message"

\* C24: a message is sent to a group only in a turn the send-to-group
\* handler was invoked for, whose stored state at entry had stage
\* confirmation with message details and whose text satisfies the
\* confirmation predicate.
C24_SendsOnlyOnConfirmation ==
    [][(MessageStep /\ dlg'.cur.sent # {})
          => /\ dlg'.cur.invoked = <<"SEND_TO_GROUP">>
             /\ DraftReady(cache, dlg'.cur.room)
             /\ isConfirmationMessage(dlg'.cur.text)]_vars

\* A "yes" to a draft for g1 has just been handled and g1 was sent to.
C24_Witness ==
    /\ dlg.cur.op = "message"
    /\ dlg.cur.text = "yes"
    /\ dlg.cur.sent = {"g1"}

\* C25 (as claimed): when the dialog is at the confirmation stage, the text
\* satisfies the cancellation predicate and the send-to-group handler is
\* the action the classifier nominates, nothing is sent to any group and
\* the dialog state is cleared.
C25_CancellationSendsNothing ==
    [][(/\ MessageStep
        /\ DraftReady(cache, dlg'.cur.room)
        /\ isCancellationMessage(dlg'.cur.text)
        /\ dlg'.cur.nominated = <<"SEND_TO_GROUP">>
        /\ dlg'.cur.full = "false")
          => /\ dlg'.cur.sent = {}
             /\ ~cache'[<<"send_to_group", dlg'.cur.room>>].exists]_vars

\* C29: whenever a room's stored send-to-group state has stage
\* confirmation, its messageDetails holds a targetGroup and a messageContent
\* that are non-empty strings.
C29_ConfirmationHasDraft ==
    \A r \in Rooms :
        LET st == StateOf(cache, "send_to_group", r).value
            messageDetails == GetField(st, "messageDetails")
            targetGroup == GetField(messageDetails, "targetGroup")
            messageContent == GetField(messageDetails, "messageContent")
        IN StrOf(GetField(st, "stage")) = "confirmation"
               => /\ targetGroup.type = "string"
                  /\ targetGroup.str # ""
                  /\ messageContent.type = "string"
                  /\ messageContent.str # ""

\* The confirmation stage was reached through the editing stage: the state
\* keeps the message that was replaced.
C29_Witness ==
    LET st == StateOf(cache, "send_to_group", DialogRoom).value
        messageDetails == GetField(st, "messageDetails")
    IN /\ StrOf(GetField(st, "stage")) = "confirmation"
       /\ GetField(messageDetails, "previousMessage").type = "string"
       /\ StrOf(GetField(messageDetails, "messageContent")) = "hello"

\* C26 (as claimed): the messages sent to the group for one drafted message
\* number at most one, however the deliveries of the confirming update
\* interleave.
C26_SentAtMostOnce == groupLog <= 1

(***************************************************************************)
(* Properties of overlapping sweeps.                                       *)
(***************************************************************************)
\* C27 (as claimed): no mention is notified to its user more than once,
\* however the runs of the sweep overlap.
C27_NotifiedOnce == \A n \in NoteKeys : notes[n] <= 1

\* C28 (as claimed): under any interleaving of a sweep with
\* markMentionsAsRead, a record the sweep has deleted does not exist
\* afterwards, and the sweep notifies no mention whose record is marked
\* read at the time of the notification.
C28_SweepAndReadConverge ==
    [][/\ \A k \in swept' : k \notin DOMAIN records'
       /\ \A s \in Sweeps :
              (sw[s].pc = "notify" /\ sw'[s].pc = "cleanup")
                  => \A k \in sw[s].toNotify :
                         HGetAll(records, k).status # "read"]_vars

(***************************************************************************)
(* Properties of the rate limiter.                                         *)
(***************************************************************************)
\* C30 (as claimed): every admitted message increments the user's counter
\* and the counter lives for one counting window, so no user's counter
\* exceeds maxMessages, also when two messages are handled together.
C30_AtMostMaxPerWindow == \A u \in Users : rlCount[u] <= maxMessages

====
